---------------------------- MODULE Spec2Model ----------------------------
(***************************************************************************)
(* Atari 7800 AstroCart: the SD-card sector loader (the state machine that *)
(* replace_loader.py installs into top.v), the SD provisioning tool        *)
(* (write_games_to_sd.py) and the checksum simulations (sim_crc3.py,       *)
(* sim_crc2.py).                                                           *)
(*                                                                         *)
(* The specifications share the module's variables:                        *)
(*   Spec       the loader, one action per case branch, clocked together   *)
(*              with an unconstrained SD controller;                       *)
(*   SpecProv   sequences of write_game_to_blocks calls on one medium;     *)
(*   SpecSum    the byte-sum loop of sim_crc3.py;                          *)
(*   SpecSweep  the partial-sample sweep of sim_crc2.py;                   *)
(*   SpecOffset the placement loop of sim_offset.py;                       *)
(*   SpecPerm   calculate_sum of verify_checksum.py and the sweep of       *)
(*              sim_crc2.py, each on a file and on a reordering of it;     *)
(*   SpecLive   the loader with a controller that answers.                 *)
(***************************************************************************)
EXTENDS Integers, Naturals, Sequences, FiniteSets

VARIABLES
    \* ---- loader registers (replace_loader.py, new_logic) ----
    sd_state, sd_address, sd_rd, byte_in_sector, psram_wr_req,
    psram_load_addr, current_sector, load_complete, game_loaded,
    sd_byte_available_d,
    \* ---- SD controller outputs and its position on the medium ----
    sd_ready, sd_status, sd_byte_available, sd_data, dev_sector, dev_pos,
    \* ---- memory target and observations of the run ----
    psram, requests, delivered, consumed, start_block, seen_idle_status,
    \* ---- provisioning tool ----
    medium, medium0, writes, last_call, slot_len,
    \* ---- sim_crc3.py ----
    sum_file, sum_i, sd_checksum, sum_pc,
    \* ---- sim_crc2.py ----
    crc_file, crc_address, checksum, crc_pc,
    \* ---- sim_offset.py ----
    sim_range, sim_i, sim_load_addr, sim_out,
    \* ---- verify_checksum.py against sim_crc2.py on reordered data ----
    perm_data, perm_order, skip_header, total_sum, crc_results, perm_pc

loaderVars == <<sd_state, sd_address, sd_rd, byte_in_sector, psram_wr_req,
                psram_load_addr, current_sector, load_complete, game_loaded,
                sd_byte_available_d>>
deviceVars == <<sd_ready, sd_status, sd_byte_available, sd_data, dev_sector, dev_pos>>
traceVars  == <<psram, requests, delivered, consumed, start_block, seen_idle_status>>
provVars   == <<medium, medium0, writes, last_call, slot_len>>
sumVars    == <<sum_file, sum_i, sd_checksum, sum_pc>>
sweepVars  == <<crc_file, crc_address, checksum, crc_pc>>
offsetVars == <<sim_range, sim_i, sim_load_addr, sim_out>>
permVars   == <<perm_data, perm_order, skip_header, total_sum, crc_results, perm_pc>>
vars == <<loaderVars, deviceVars, traceVars, provVars, sumVars, sweepVars,
          offsetVars, permVars>>

(***************************************************************************)
(* Sizes.  The loader's sector length (the literals 512 and 511 of         *)
(* SD_LOAD_DATA) and the sector count GAME_SIZE_SECTORS (97 in top.v) are  *)
(* scaled down: the state machine reads them only through comparisons, so  *)
(* every branch is taken at the small sizes as well.                       *)
(***************************************************************************)
SECTOR_BYTES == 3
GAME_SIZE_SECTORS == 2
HEADER_SKIP_BYTES == 2

SD_STATUS_IDLE == 6
SdStatusValues == {SD_STATUS_IDLE, 5}

SD_IDLE       == "SD_IDLE"
SD_LOAD_START == "SD_LOAD_START"
SD_LOAD_WAIT  == "SD_LOAD_WAIT"
SD_LOAD_DATA  == "SD_LOAD_DATA"
SD_LOAD_NEXT  == "SD_LOAD_NEXT"
SD_COMPLETE   == "SD_COMPLETE"
RecognizedStates == {SD_IDLE, SD_LOAD_START, SD_LOAD_WAIT, SD_LOAD_DATA,
                     SD_LOAD_NEXT, SD_COMPLETE}
\* encodings of the state register that no case item names
UnrecognizedStates == {"SD_UNUSED_6", "SD_UNUSED_7"}

\* The block the transfer starts at: block 0 (sim_crc3.py: "sectors 0 to 96")
\* or the first block of slot 0 as write_games_to_sd.py lays it out.
StartBlocks == {0, 1}

TotalBytes == GAME_SIZE_SECTORS * SECTOR_BYTES
NoByte == 0 - 1
\* the byte of the medium at (sector, offset), named by its absolute position
MediumByte(sector, pos) == sector * SECTOR_BYTES + pos

(***************************************************************************)
(* Initial values of the variables a specification does not use.           *)
(***************************************************************************)
LoaderParked ==
    /\ sd_state = SD_IDLE /\ sd_address = 0 /\ sd_rd = 0 /\ byte_in_sector = 0
    /\ psram_wr_req = 0 /\ psram_load_addr = 0 /\ current_sector = 0
    /\ load_complete = 0 /\ game_loaded = 0 /\ sd_byte_available_d = 0
    /\ sd_ready = 0 /\ sd_status = 5 /\ sd_byte_available = 0
    /\ sd_data = NoByte /\ dev_sector = 0 /\ dev_pos = 0
    /\ psram = <<>> /\ requests = <<>> /\ delivered = 0
    /\ consumed = 0 /\ start_block = 0
    /\ seen_idle_status = FALSE
ProvParked  ==
    /\ medium = <<>> /\ medium0 = <<>> /\ writes = 0 /\ last_call = <<>>
    /\ slot_len = <<>>
SumParked   == sum_file = <<>> /\ sum_i = 0 /\ sd_checksum = 0 /\ sum_pc = "off"
SweepParked == crc_file = <<>> /\ crc_address = 0 /\ checksum = 0 /\ crc_pc = "off"
OffsetParked == sim_range = 0 /\ sim_i = 0 /\ sim_load_addr = 0 /\ sim_out = <<>>
PermParked ==
    /\ perm_data = <<>> /\ perm_order = <<>> /\ skip_header = 0
    /\ total_sum = <<>> /\ crc_results = <<>> /\ perm_pc = "off"

(***************************************************************************)
(* The SD controller.  It is outside the repository: every output is free  *)
(* on every clock, except that it presents at most one sector of bytes per *)
(* read request.  A read request latches the sector address; each rising   *)
(* edge of sd_byte_available presents the next byte of that sector.        *)
(***************************************************************************)
DeviceStep ==
    /\ sd_ready' \in {0, 1}
    /\ sd_status' \in SdStatusValues
    /\ sd_byte_available' \in {0, 1}
    /\ IF sd_rd = 1
       THEN /\ sd_byte_available' = 0
            /\ dev_sector' = sd_address
            /\ dev_pos' = 0
            /\ UNCHANGED <<sd_data, delivered>>
       ELSE IF sd_byte_available = 0 /\ sd_byte_available' = 1
       THEN /\ dev_pos < SECTOR_BYTES
            /\ sd_data' = MediumByte(dev_sector, dev_pos)
            /\ dev_pos' = dev_pos + 1
            /\ delivered' = delivered + 1
            /\ UNCHANGED dev_sector
       ELSE UNCHANGED <<sd_data, dev_sector, dev_pos, delivered>>

\* Every clock: the shadow of sd_byte_available, the controller, the trace.
Clock ==
    /\ sd_byte_available_d' = sd_byte_available
    /\ seen_idle_status' = (seen_idle_status \/ sd_status = SD_STATUS_IDLE)
    /\ DeviceStep
    /\ UNCHANGED start_block
    /\ UNCHANGED <<provVars, sumVars, sweepVars, offsetVars, permVars>>

(***************************************************************************)
(* The loader, one action per case item.  Non-blocking assignments: every  *)
(* right-hand side reads the registers of the clock before.                *)
(***************************************************************************)
\* a mutation: the status value is not looked at
IdleStartOnReadyOnly == sd_ready = 1
IdleStartCondition == sd_ready = 1 /\ sd_status = SD_STATUS_IDLE

Idle ==
    /\ sd_state = SD_IDLE
    /\ sd_state' = IF IdleStartCondition THEN SD_LOAD_START ELSE SD_IDLE
    /\ UNCHANGED <<sd_address, sd_rd, byte_in_sector, psram_wr_req,
                   psram_load_addr, current_sector, load_complete, game_loaded>>
    /\ UNCHANGED <<psram, requests, consumed>>
    /\ Clock

LoadStart ==
    /\ sd_state = SD_LOAD_START
    /\ sd_address' = current_sector
    /\ sd_rd' = 1
    /\ byte_in_sector' = 0
    /\ sd_state' = SD_LOAD_WAIT
    /\ requests' = Append(requests, current_sector)
    /\ UNCHANGED <<psram_wr_req, psram_load_addr, current_sector,
                   load_complete, game_loaded, psram, consumed>>
    /\ Clock

\* a mutation: the read request stays asserted after the controller answered
LoadWaitKeepsRd ==
    /\ sd_state = SD_LOAD_WAIT
    /\ IF sd_ready = 0
       THEN sd_rd' = sd_rd /\ sd_state' = SD_LOAD_DATA
       ELSE UNCHANGED <<sd_rd, sd_state>>
    /\ UNCHANGED <<sd_address, byte_in_sector, psram_wr_req, psram_load_addr,
                   current_sector, load_complete, game_loaded>>
    /\ UNCHANGED <<psram, requests, consumed>>
    /\ Clock

LoadWait ==
    /\ sd_state = SD_LOAD_WAIT
    /\ IF sd_ready = 0
       THEN sd_rd' = 0 /\ sd_state' = SD_LOAD_DATA
       ELSE UNCHANGED <<sd_rd, sd_state>>
    /\ UNCHANGED <<sd_address, byte_in_sector, psram_wr_req, psram_load_addr,
                   current_sector, load_complete, game_loaded>>
    /\ UNCHANGED <<psram, requests, consumed>>
    /\ Clock

\* a mutation: a byte that arrives with the ready signal is still taken
SectorEndedUnlessByte ==
    /\ sd_ready = 1 /\ byte_in_sector < SECTOR_BYTES
    /\ ~(sd_byte_available = 1 /\ sd_byte_available_d = 0)
SectorEnded == sd_ready = 1 /\ byte_in_sector < SECTOR_BYTES
\* a mutation: the level of the flag is taken, not its rising edge
ByteLevel == sd_byte_available = 1
ByteEdge == sd_byte_available = 1 /\ sd_byte_available_d = 0
NextLoadAddr == psram_load_addr + 1
\* a mutation: the last byte of a sector is not recognized
LastByteNever == FALSE
\* a mutation: the test reads the counter after this clock's increment
LastByteAfterIncrement == byte_in_sector + 1 = SECTOR_BYTES - 1
\* "511 is last byte, 0-indexed": the counter of the clock before
LastByteOfSector == byte_in_sector = SECTOR_BYTES - 1

LoadData ==
    /\ sd_state = SD_LOAD_DATA
    /\ IF SectorEnded
       THEN /\ sd_state' = SD_LOAD_NEXT
            /\ UNCHANGED <<psram_wr_req, psram_load_addr, byte_in_sector,
                           psram, consumed>>
       ELSE IF ByteEdge
       THEN /\ psram_wr_req' = 1
            /\ psram' = [psram EXCEPT ![psram_load_addr] = sd_data]
            /\ psram_load_addr' = NextLoadAddr
            /\ byte_in_sector' = byte_in_sector + 1
            /\ consumed' = consumed + 1
            /\ sd_state' = IF LastByteOfSector
                           THEN SD_LOAD_NEXT ELSE SD_LOAD_DATA
       ELSE UNCHANGED <<sd_state, psram_wr_req, psram_load_addr,
                        byte_in_sector, psram, consumed>>
    /\ UNCHANGED <<sd_address, sd_rd, current_sector, load_complete,
                   game_loaded, requests>>
    /\ Clock

LastSector == current_sector = GAME_SIZE_SECTORS - 1

\* a mutation: the next block is waited for without a new request
LoadNextSkipsStart ==
    /\ sd_state = SD_LOAD_NEXT
    /\ psram_wr_req' = 0
    /\ IF LastSector
       THEN sd_state' = SD_COMPLETE /\ UNCHANGED current_sector
       ELSE current_sector' = current_sector + 1 /\ sd_state' = SD_LOAD_WAIT
    /\ UNCHANGED <<sd_address, sd_rd, byte_in_sector, psram_load_addr,
                   load_complete, game_loaded>>
    /\ UNCHANGED <<psram, requests, consumed>>
    /\ Clock

LoadNext ==
    /\ sd_state = SD_LOAD_NEXT
    /\ psram_wr_req' = 0
    /\ IF LastSector
       THEN sd_state' = SD_COMPLETE /\ UNCHANGED current_sector
       ELSE current_sector' = current_sector + 1 /\ sd_state' = SD_LOAD_START
    /\ UNCHANGED <<sd_address, sd_rd, byte_in_sector, psram_load_addr,
                   load_complete, game_loaded>>
    /\ UNCHANGED <<psram, requests, consumed>>
    /\ Clock

\* a mutation: the loader restarts once the flags are set
CompleteRestarts == SD_IDLE
\* "Stay in this state - loading is done"
CompleteHolds == SD_COMPLETE

Complete ==
    /\ sd_state = SD_COMPLETE
    /\ load_complete' = 1
    /\ game_loaded' = 1
    /\ sd_state' = CompleteHolds
    /\ UNCHANGED <<sd_address, sd_rd, byte_in_sector, psram_wr_req,
                   psram_load_addr, current_sector>>
    /\ UNCHANGED <<psram, requests, consumed>>
    /\ Clock

\* a mutation: the safety branch also clears the request lines and the
\* write address, as a reset would
DefaultResets ==
    /\ sd_state \notin RecognizedStates
    /\ sd_state' = SD_IDLE
    /\ sd_rd' = 0 /\ psram_wr_req' = 0 /\ psram_load_addr' = 0
    /\ UNCHANGED <<sd_address, byte_in_sector, current_sector,
                   load_complete, game_loaded>>
    /\ UNCHANGED <<psram, requests, consumed>>
    /\ Clock

Default ==
    /\ sd_state \notin RecognizedStates
    /\ sd_state' = SD_IDLE
    /\ UNCHANGED <<sd_address, sd_rd, byte_in_sector, psram_wr_req,
                   psram_load_addr, current_sector, load_complete, game_loaded>>
    /\ UNCHANGED <<psram, requests, consumed>>
    /\ Clock

\* A new load session: the flags clear, the write address at the base of
\* the memory target, the block index at the transfer's start block.
Init ==
    /\ sd_state \in {SD_IDLE} \cup UnrecognizedStates
    /\ current_sector \in StartBlocks
    /\ sd_address = 0 /\ sd_rd = 0 /\ byte_in_sector = 0
    /\ psram_wr_req = 0 /\ psram_load_addr = 0
    /\ load_complete = 0 /\ game_loaded = 0 /\ sd_byte_available_d = 0
    /\ sd_ready \in {0, 1} /\ sd_status \in SdStatusValues
    /\ sd_byte_available = 0
    /\ sd_data = NoByte /\ dev_sector = 0 /\ dev_pos = 0
    /\ psram = [a \in 0 .. TotalBytes - 1 |-> NoByte]
    /\ requests = <<>> /\ delivered = 0 /\ consumed = 0
    /\ start_block = current_sector /\ seen_idle_status = FALSE
    /\ ProvParked /\ SumParked /\ SweepParked /\ OffsetParked /\ PermParked

Next == Idle \/ LoadStart \/ LoadWait \/ LoadData \/ LoadNext \/ Complete \/ Default

Spec == Init /\ [][Next]_vars

\* The loader is clocked logic: the clock never stops.  What the controller
\* answers stays free.
SpecLive == Init /\ [][Next]_vars /\ WF_vars(Next)

(***************************************************************************)
(* The loader after an upset of its state register: sd_state holds an      *)
(* encoding no case item names while the other registers hold what a load  *)
(* had put in them.  The case items never assign such an encoding, so this *)
(* is the only way the default item runs with registers off their reset    *)
(* values.                                                                 *)
(***************************************************************************)
LastBlock == GAME_SIZE_SECTORS - 1
\* the registers at the upset: [rd, wr, addr, count, sector, done]
UpsetRegisters ==
    {\* nothing loaded yet
     [rd |-> 0, wr |-> 0, addr |-> 0, count |-> 0, sector |-> 0, done |-> 0],
     \* the request for the last block is waiting for the controller
     [rd |-> 1, wr |-> 0, addr |-> SECTOR_BYTES, count |-> 0,
      sector |-> LastBlock, done |-> 0],
     \* one byte of the last block is committed
     [rd |-> 0, wr |-> 1, addr |-> SECTOR_BYTES + 1, count |-> 1,
      sector |-> LastBlock, done |-> 0],
     \* the load is complete
     [rd |-> 0, wr |-> 0, addr |-> TotalBytes, count |-> SECTOR_BYTES,
      sector |-> LastBlock, done |-> 1]}

InitUpset ==
    /\ sd_state \in UnrecognizedStates
    /\ \E r \in UpsetRegisters :
          /\ sd_rd = r.rd /\ psram_wr_req = r.wr
          /\ psram_load_addr = r.addr /\ byte_in_sector = r.count
          /\ current_sector = r.sector /\ sd_address = r.sector
          /\ load_complete = r.done /\ game_loaded = r.done
          /\ consumed = r.addr /\ delivered = r.addr
    /\ sd_byte_available_d \in {0, 1}
    /\ sd_ready \in {0, 1} /\ sd_status \in SdStatusValues
    /\ sd_byte_available \in {0, 1}
    /\ sd_data = NoByte /\ dev_sector = 0 /\ dev_pos = 0
    /\ psram = [a \in 0 .. 2 * TotalBytes - 1 |-> NoByte]
    /\ requests = <<>>
    /\ start_block = current_sector /\ seen_idle_status = FALSE
    /\ ProvParked /\ SumParked /\ SweepParked /\ OffsetParked /\ PermParked

SpecUpset == InitUpset /\ [][Next]_vars

(***************************************************************************)
(* write_games_to_sd.py.  The card geometry is the tool's (512-byte        *)
(* blocks, 100 blocks per game); the medium TLC explores is laid out by    *)
(* the same code over a small geometry, so that whole media fit in a       *)
(* state.  Every operator takes the geometry g = [bs, bpg] it works on.    *)
(***************************************************************************)
BLOCK_SIZE == 512
BLOCKS_PER_GAME == 100
CardGeometry == [bs |-> BLOCK_SIZE, bpg |-> BLOCKS_PER_GAME]

ModelBlockSize == 2
ModelBlocksPerGame == 2
MaxWrites == 2
ModelGeometry == [bs |-> ModelBlockSize, bpg |-> ModelBlocksPerGame]
GameNumbers == {0, 1}
MediumBytes == (1 + Cardinality(GameNumbers) * ModelBlocksPerGame) * ModelBlockSize
\* what an unwritten card holds: zeros, or the bytes of an old filesystem
BlankMedium == [p \in 0 .. MediumBytes - 1 |-> 0]
UsedMedium  == [p \in 0 .. MediumBytes - 1 |-> 3]
\* game files: one of every length up to one block more than a slot, made of
\* non-zero bytes that differ from file to file
GameSizes == 0 .. (ModelBlocksPerGame + 1) * ModelBlockSize
GameData(size) == [i \in 1 .. size |-> 1 + ((size + i) % 2)]

\* a mutation: the reserved block 0 is forgotten
StartBlockFromZero(g, game_number) == game_number * g.bpg
start_block_of(g, game_number) == 1 + (game_number * g.bpg)

\* a mutation: the block count rounds down
BlocksNeededFloor(g, game_size) == game_size \div g.bs
blocks_needed_of(g, game_size) == (game_size + g.bs - 1) \div g.bs

TooLarge(g, game_size) == blocks_needed_of(g, game_size) > g.bpg

offset_of(g, game_number) == start_block_of(g, game_number) * g.bs

\* a mutation: the last block is left unpadded
PaddingNone(g, game_size) == 0
padding_of(g, game_size) ==
    LET remainder == game_size % g.bs
    IN  IF remainder > 0 THEN g.bs - remainder ELSE 0

\* sd.seek(offset); sd.write(game_data); sd.write(b'\x00' * padding)
Written(m, offset, game_data, padding) ==
    [p \in DOMAIN m |->
        IF offset <= p /\ p < offset + Len(game_data)
        THEN game_data[p - offset + 1]
        ELSE IF offset + Len(game_data) <= p
                /\ p < offset + Len(game_data) + padding
        THEN 0
        ELSE m[p]]

Called(game_number, size, ret) ==
    /\ writes < MaxWrites
    /\ writes' = writes + 1
    /\ last_call' = [n |-> game_number, size |-> size, ret |-> ret]
    /\ UNCHANGED <<medium0, loaderVars, deviceVars, traceVars, sumVars, sweepVars,
                   offsetVars, permVars>>

\* "Error: Game is too large": return False before the device is opened
RejectTooLarge ==
    \E game_number \in GameNumbers, size \in GameSizes :
        /\ TooLarge(ModelGeometry, size)
        /\ UNCHANGED <<medium, slot_len>>
        /\ Called(game_number, size, "too_large")

\* open(sd_device, 'r+b') raises (PermissionError, ...): return False
OpenFails ==
    \E game_number \in GameNumbers, size \in GameSizes :
        /\ ~TooLarge(ModelGeometry, size)
        /\ UNCHANGED <<medium, slot_len>>
        /\ Called(game_number, size, "error")

\* the game and the padding of its last block are written: return True
WriteBlocks ==
    \E game_number \in GameNumbers, size \in GameSizes :
        /\ ~TooLarge(ModelGeometry, size)
        /\ medium' = Written(medium, offset_of(ModelGeometry, game_number),
                             GameData(size),
                             padding_of(ModelGeometry, size))
        /\ slot_len' = [slot_len EXCEPT ![game_number] = size]
        /\ Called(game_number, size, "written")

InitProv ==
    /\ medium0 \in {BlankMedium, UsedMedium}
    /\ medium = medium0
    /\ writes = 0
    /\ last_call = [n |-> 0, size |-> 0, ret |-> "none"]
    /\ slot_len = [n \in GameNumbers |-> 0 - 1]
    /\ LoaderParked /\ SumParked /\ SweepParked /\ OffsetParked /\ PermParked

NextProv == RejectTooLarge \/ OpenFails \/ WriteBlocks

SpecProv == InitProv /\ [][NextProv]_vars

(***************************************************************************)
(* sim_crc3.py: the byte sum of what the loader takes from a game file.    *)
(* A 32-bit accumulator is kept as its two 16-bit halves <<high, low>>, so *)
(* that "& 0xFFFFFFFF" is exact.                                           *)
(***************************************************************************)
SD_LOAD_BYTES == 49664
A78_HEADER_BYTES == 128
payload_len == SD_LOAD_BYTES - A78_HEADER_BYTES

\* the game files summed: [kind, len]; byte i (from 0) of each
SumFiles == {[kind |-> "ff", len |-> SD_LOAD_BYTES],
             [kind |-> "ramp", len |-> SD_LOAD_BYTES],
             [kind |-> "ff_after_header", len |-> SD_LOAD_BYTES + A78_HEADER_BYTES],
             [kind |-> "ff", len |-> 1000]}
FileByte(f, i) ==
    CASE f.kind = "ff" -> 255
      [] f.kind = "ramp" -> i % 256
      [] f.kind = "ff_after_header" -> IF i < A78_HEADER_BYTES THEN 0 ELSE 255
      [] f.kind = "zeros" -> 0
      [] f.kind = "ones" -> 1
      [] f.kind = "ones_sampled" -> IF i % 32 < 12 THEN 1 ELSE 0
      [] f.kind = "ones_skipped" -> IF i % 32 < 12 THEN 0 ELSE 1
      [] f.kind = "bytes" -> f.bytes[i + 1]

\* payload = data[128:128+payload_len]: a slice stops at the end of the data
PayloadLength(f) ==
    LET stop == IF f.len < A78_HEADER_BYTES + payload_len
                THEN f.len ELSE A78_HEADER_BYTES + payload_len
    IN  IF stop > A78_HEADER_BYTES THEN stop - A78_HEADER_BYTES ELSE 0
PayloadByte(f, i) == FileByte(f, A78_HEADER_BYTES + i)

Word32(n) == <<(n \div 65536) % 65536, n % 65536>>
\* a mutation: a 16-bit accumulator, the carry out of the low half is lost
Add16(w, b) == <<w[1], (w[2] + b) % 65536>>
\* (w + b) & 0xFFFFFFFF
Add32(w, b) ==
    LET low == w[2] + b
    IN  <<(w[1] + (low \div 65536)) % 65536, low % 65536>>

SumStep ==
    /\ sum_pc = "loop"
    /\ sum_i < PayloadLength(sum_file)
    /\ sd_checksum' = Add32(sd_checksum, PayloadByte(sum_file, sum_i))
    /\ sum_i' = sum_i + 1
    /\ UNCHANGED <<sum_file, sum_pc>>
    /\ UNCHANGED <<loaderVars, deviceVars, traceVars, provVars, sweepVars,
                   offsetVars, permVars>>

SumPrint ==
    /\ sum_pc = "loop"
    /\ sum_i = PayloadLength(sum_file)
    /\ sum_pc' = "done"
    /\ UNCHANGED <<sum_file, sum_i, sd_checksum>>
    /\ UNCHANGED <<loaderVars, deviceVars, traceVars, provVars, sweepVars,
                   offsetVars, permVars>>

InitSum ==
    /\ sum_file \in SumFiles
    /\ sum_i = 0
    /\ sd_checksum = Word32(0)
    /\ sum_pc = "loop"
    /\ LoaderParked /\ ProvParked /\ SweepParked /\ OffsetParked /\ PermParked

NextSum == SumStep \/ SumPrint

SpecSum == InitSum /\ [][NextSum]_vars

(***************************************************************************)
(* sim_crc2.py: the sweep of the checksum unit, which adds the first three *)
(* words of every period.                                                  *)
(***************************************************************************)
PSRAM_IMAGE_BYTES == 98304
CRC_LAST_ADDRESS == 49136
CRC_ADDRESS_STEP == 16
WORDS_PER_PERIOD == 3

CrcFiles == {[kind |-> "zeros", len |-> PSRAM_IMAGE_BYTES],
             [kind |-> "ones", len |-> PSRAM_IMAGE_BYTES],
             [kind |-> "ones", len |-> PSRAM_IMAGE_BYTES \div 2],
             [kind |-> "ones_sampled", len |-> PSRAM_IMAGE_BYTES],
             [kind |-> "ones_skipped", len |-> PSRAM_IMAGE_BYTES],
             [kind |-> "ramp", len |-> PSRAM_IMAGE_BYTES]}

\* data.extend(b'\x00' * (98304 - len(data))); a slice past the end is empty
DataByte(f, i) == IF i < f.len THEN FileByte(f, i) ELSE 0

\* sum of word = data[at : at + 4]
WordSum(f, at) ==
    DataByte(f, at) + DataByte(f, at + 1) + DataByte(f, at + 2) + DataByte(f, at + 3)

RECURSIVE WordsSum(_, _, _)
WordsSum(f, at, words) ==
    IF words = 0 THEN 0
    ELSE WordSum(f, at) + WordsSum(f, at + 4, words - 1)

\* a mutation: the whole burst of four words is added
PeriodSumWholeBurst(f, address) == WordsSum(f, address * 2, 4)
\* byte_addr = crc_address * 2; for i in range(3): checksum += sum(word)
PeriodSum(f, address) == WordsSum(f, address * 2, WORDS_PER_PERIOD)

SweepStep ==
    /\ crc_pc = "loop"
    /\ crc_address <= CRC_LAST_ADDRESS
    /\ checksum' = checksum + PeriodSum(crc_file, crc_address)
    /\ crc_address' = crc_address + CRC_ADDRESS_STEP
    /\ UNCHANGED <<crc_file, crc_pc>>
    /\ UNCHANGED <<loaderVars, deviceVars, traceVars, provVars, sumVars,
                   offsetVars, permVars>>

SweepPrint ==
    /\ crc_pc = "loop"
    /\ crc_address > CRC_LAST_ADDRESS
    /\ crc_pc' = "done"
    /\ UNCHANGED <<crc_file, crc_address, checksum>>
    /\ UNCHANGED <<loaderVars, deviceVars, traceVars, provVars, sumVars,
                   offsetVars, permVars>>

InitSweep ==
    /\ crc_file \in CrcFiles
    /\ crc_address = 0
    /\ checksum = 0
    /\ crc_pc = "loop"
    /\ LoaderParked /\ ProvParked /\ SumParked /\ OffsetParked /\ PermParked

NextSweep == SweepStep \/ SweepPrint

SpecSweep == InitSweep /\ [][NextSweep]_vars

(***************************************************************************)
(* sim_offset.py: where the placement puts the byte of each write address. *)
(* The script walks 32 addresses; the walk is modelled for every length up *)
(* to that.                                                                *)
(***************************************************************************)
OFFSET_RANGE == 32

\* word_sel = (psram_load_addr >> 2) & 3
word_sel(addr) == (addr \div 4) % 4
\* byte_sel = psram_load_addr & 3
byte_sel(addr) == addr % 4

\* one pass of the for loop: the line printed, then psram_load_addr += 1
OffsetStep ==
    /\ sim_i < sim_range
    /\ sim_out' = Append(sim_out, <<word_sel(sim_load_addr), byte_sel(sim_load_addr)>>)
    /\ sim_load_addr' = sim_load_addr + 1
    /\ sim_i' = sim_i + 1
    /\ UNCHANGED sim_range
    /\ UNCHANGED <<loaderVars, deviceVars, traceVars, provVars, sumVars,
                   sweepVars, permVars>>

InitOffset ==
    /\ sim_range \in 1 .. OFFSET_RANGE
    /\ sim_i = 0
    /\ sim_load_addr = 0
    /\ sim_out = <<>>
    /\ LoaderParked /\ ProvParked /\ SumParked /\ SweepParked /\ PermParked

NextOffset == OffsetStep

SpecOffset == InitOffset /\ [][NextOffset]_vars

(***************************************************************************)
(* Placement claim.                                                        *)
(***************************************************************************)
\* (word, lane) pairs in lexicographic order
PairBefore(p, q) == p[1] < q[1] \/ (p[1] = q[1] /\ p[2] < q[2])

\* C11 (as claimed): placement arithmetic.  The (word_index, byte_lane)
\* pairs computed for the write addresses 0, 1, 2, ... walked so far are
\* strictly increasing in the address, hence no two addresses share a
\* (word, lane) location.
C11_PlacementStrictlyIncreasing ==
    \A a, b \in 1 .. Len(sim_out) :
        a < b => PairBefore(sim_out[a], sim_out[b])

(***************************************************************************)
(* verify_checksum.py and sim_crc2.py, each run on a file and on the same  *)
(* file with its bytes reordered.  calculate_sum is called twice, as the   *)
(* script's main calls it; the sweep of sim_crc2.py is then run on each of *)
(* the two files in turn.                                                  *)
(***************************************************************************)
PermLen == 14
PermFiles == {[i \in 1 .. PermLen |-> (s + m * i) % 256] : s \in {0, 250}, m \in {0, 1}}
SkipHeaders == {0, 2}
\* the positions (from 0) a reordering moves: the first byte after the
\* header and two neighbours further on
MovedPositions(skip) == {skip, PermLen - 3, PermLen - 2}
Orders(skip) ==
    LET moved == {p + 1 : p \in MovedPositions(skip)}
        shuffles == {q \in [moved -> moved] : \A k, l \in moved : q[k] = q[l] => k = l}
    IN  {[k \in 1 .. PermLen |-> IF k \in moved THEN q[k] ELSE k] : q \in shuffles}
Reordered(data, order) == [k \in 1 .. Len(data) |-> data[order[k]]]
BytesFile(data) == [kind |-> "bytes", len |-> Len(data), bytes |-> data]

RECURSIVE SeqSum(_)
SeqSum(data) == IF data = <<>> THEN 0 ELSE Head(data) + SeqSum(Tail(data))

\* a mutation: the header's length is cut from the end of the data
calculate_sum_cut_tail(data, skip) ==
    LET processing_data == IF skip > 0
                           THEN SubSeq(data, 1, Len(data) - skip)
                           ELSE data
    IN  SeqSum(processing_data)
\* processing_data = data[skip_header:] if skip_header > 0 else data;
\* total_sum = sum(processing_data)
calculate_sum(data, skip) ==
    LET processing_data == IF skip > 0
                           THEN SubSeq(data, skip + 1, Len(data))
                           ELSE data
    IN  SeqSum(processing_data)

StartSweep(data) ==
    /\ crc_file' = BytesFile(data)
    /\ crc_address' = 0
    /\ checksum' = 0
    /\ crc_pc' = "loop"

CalculateSums ==
    /\ perm_pc = "sum"
    /\ total_sum' = <<calculate_sum(perm_data, skip_header),
                      calculate_sum(Reordered(perm_data, perm_order), skip_header)>>
    /\ perm_pc' = "sweep"
    /\ StartSweep(perm_data)
    /\ UNCHANGED <<perm_data, perm_order, skip_header, crc_results>>
    /\ UNCHANGED <<loaderVars, deviceVars, traceVars, provVars, sumVars, offsetVars>>

\* the value a sweep printed is kept; the reordered file is swept next
SweepRecord ==
    /\ perm_pc = "sweep"
    /\ crc_pc = "done"
    /\ crc_results' = Append(crc_results, checksum)
    /\ IF crc_results = <<>>
       THEN /\ StartSweep(Reordered(perm_data, perm_order))
            /\ UNCHANGED perm_pc
       ELSE /\ perm_pc' = "done"
            /\ UNCHANGED sweepVars
    /\ UNCHANGED <<perm_data, perm_order, skip_header, total_sum>>
    /\ UNCHANGED <<loaderVars, deviceVars, traceVars, provVars, sumVars, offsetVars>>

InitPerm ==
    /\ perm_data \in PermFiles
    /\ skip_header \in SkipHeaders
    /\ perm_order \in Orders(skip_header)
    /\ total_sum = <<>>
    /\ crc_results = <<>>
    /\ perm_pc = "sum"
    /\ LoaderParked /\ ProvParked /\ SumParked /\ SweepParked /\ OffsetParked

NextPerm == CalculateSums \/ SweepStep \/ SweepPrint \/ SweepRecord

SpecPerm == InitPerm /\ [][NextPerm]_vars

(***************************************************************************)
(* Checksum claims.                                                        *)
(***************************************************************************)
\* the payload after the header is 49536 bytes, all of value 0xFF
AllFFPayload(f) ==
    /\ PayloadLength(f) = 49536
    /\ f.kind \in {"ff", "ff_after_header"}

\* C9 (as claimed): the full sum over the 49536 payload bytes of value 0xFF
\* after the 128-byte header is 0x00C4C140.
C9_FullSumFixture ==
    (sum_pc = "done" /\ AllFFPayload(sum_file)) =>
        sd_checksum = <<196, 49472>>

\* C9 (amended): the full sum over the 49536 payload bytes of value 0xFF
\* after the 128-byte header is 49536 * 0xFF mod 2^32 = 0x00C0BE80; the
\* accumulator grows by the byte added at every step and never wraps there.
C9_FullSumIsC0BE80 ==
    /\ (sum_pc = "done" /\ AllFFPayload(sum_file)) =>
          /\ sd_checksum = <<192, 48768>>
          /\ sd_checksum = Word32(49536 * 255)
    /\ AllFFPayload(sum_file) => sd_checksum = Word32(sum_i * 255)
\* the sum of the file with a zero header and 0xFF after it has been printed
C9_Witness ==
    /\ sum_pc = "done" /\ sum_file.kind = "ff_after_header"
    /\ sum_i = 49536

\* the periods a sweep up to 0x00BFF0 inclusive takes
PeriodsSwept == (CRC_LAST_ADDRESS \div CRC_ADDRESS_STEP) + 1
\* the image covers every byte the sweep reads
CoversSweep(f) == f.len >= CRC_LAST_ADDRESS * 2 + 4 * WORDS_PER_PERIOD

Sampled(k) == k % 32 < 12
\* the reordering exchanges the bytes at positions i and j and moves no other
IsSwap(order, i, j) ==
    /\ order[i + 1] = j + 1 /\ order[j + 1] = i + 1
    /\ \A k \in DOMAIN order : (k # i + 1 /\ k # j + 1) => order[k] = k

\* C12: checksum asymmetry.  The full sum of a file is the same for every
\* reordering of the bytes after the header; the partial-sample sweep is
\* not: whenever the reordering exchanges a sampled byte with a skipped
\* byte of a different value, the two sweeps print different values.
C12_ChecksumAsymmetry ==
    /\ perm_pc \in {"sweep", "done"} => total_sum[1] = total_sum[2]
    /\ perm_pc = "done" =>
          \A i, j \in 0 .. PermLen - 1 :
              (/\ IsSwap(perm_order, i, j)
               /\ Sampled(i) /\ ~Sampled(j)
               /\ perm_data[i + 1] # perm_data[j + 1]) =>
                  crc_results[1] # crc_results[2]
\* both scripts have run on a file and on a reordering of it: the full sums
\* agree (and are not zero), the partial-sample results differ
C12_Witness ==
    /\ perm_pc = "done"
    /\ total_sum[1] = total_sum[2] /\ total_sum[1] > 0
    /\ crc_results[1] # crc_results[2]
    /\ \E i, j \in 0 .. PermLen - 1 :
          IsSwap(perm_order, i, j) /\ Sampled(i) /\ ~Sampled(j)

(***************************************************************************)
(* Provisioning claims.                                                    *)
(***************************************************************************)
\* ceil(a / b), computed without the tool's rounding expression
CeilDiv(a, b) == IF a % b = 0 THEN a \div b ELSE (a \div b) + 1
\* the blocks of slot n, as byte positions [SlotFirst, SlotEnd)
SlotFirst(g, n) == (1 + g.bpg * n) * g.bs
SlotEnd(g, n)   == (1 + g.bpg * (n + 1)) * g.bs
\* the end of the blocks an image of this size occupies in slot n
ImageEnd(g, n, size) == SlotFirst(g, n) + CeilDiv(size, g.bs) * g.bs

\* On the card's geometry the tool rejects exactly the images longer than
\* 51200 bytes.
CardRejectsOver51200 ==
    \A size \in 0 .. 52300 : TooLarge(CardGeometry, size) <=> size > 51200

\* C6: oversize rejection.  write_game_to_blocks fails for oversize exactly
\* when ceil(len(image)/block_size) > blocks_per_slot (on the card: exactly
\* when len(image) > 51200), and a rejected call leaves every byte of the
\* medium as it was.
C6_OversizeRejection ==
    [][ /\ CardRejectsOver51200
        /\ (last_call'.ret = "too_large") <=>
               (CeilDiv(last_call'.size, ModelBlockSize) > ModelBlocksPerGame)
        /\ last_call'.ret = "too_large" => medium' = medium
      ]_vars
\* a rejected image of one byte more than a slot, after a successful write
C6_Witness ==
    /\ last_call.ret = "too_large"
    /\ last_call.size = ModelBlocksPerGame * ModelBlockSize + 1
    /\ medium # medium0

\* On the card slot 2 starts at block 201, byte offset 102912.
CardSlot2At201 ==
    /\ start_block_of(CardGeometry, 2) = 201
    /\ offset_of(CardGeometry, 2) = 102912

\* C7: slot confinement.  A successful write of an image to slot n sets the
\* bytes from the slot's first block on to the image followed by zeros up to
\* the next block boundary and changes no byte outside
\* [(1+bpg*n)*bs, (1+bpg*n+blocks_needed)*bs); that range lies inside slot
\* n; block 0 never changes; on the card slot 2 starts at block 201, byte
\* offset 102912.
C7_SlotConfinement ==
    [][ /\ CardSlot2At201
        /\ last_call'.ret = "written" =>
             LET n    == last_call'.n
                 size == last_call'.size
                 data == GameData(size)
                 from == SlotFirst(ModelGeometry, n)
                 to   == ImageEnd(ModelGeometry, n, size)
             IN  /\ from <= to /\ to <= SlotEnd(ModelGeometry, n)
                 /\ \A p \in DOMAIN medium :
                       medium'[p] =
                           IF p < from \/ p >= to THEN medium[p]
                           ELSE IF p < from + size THEN data[p - from + 1]
                           ELSE 0
        /\ \A p \in 0 .. ModelBlockSize - 1 : medium'[p] = medium0[p]
      ]_vars
\* an image with a partly filled last block was written to slot 1 of a used
\* card, after slot 0 was written
C7_Witness ==
    /\ last_call.ret = "written" /\ last_call.n = 1
    /\ last_call.size = ModelBlockSize + 1
    /\ slot_len[0] > 0
    /\ medium0 = UsedMedium

\* the bytes of slot n in the blocks after those of an image of this size
TailPositions(g, n, size) ==
    {p \in 0 .. MediumBytes - 1 : ImageEnd(g, n, size) <= p /\ p < SlotEnd(g, n)}
\* the bytes of the image's last block after the image's end
PadPositions(g, n, size) ==
    {p \in 0 .. MediumBytes - 1 :
        SlotFirst(g, n) + size <= p /\ p < ImageEnd(g, n, size)}

\* C8 (as claimed): zero-padded slot tail.  After any sequence of
\* successful writes every block of a slot beyond the blocks of the image
\* most recently written to it holds only zero bytes.  (Stated for a card
\* that was blank, where only the tool's own writes leave non-zero bytes.)
C8_ZeroTail ==
    \A n \in GameNumbers :
        (medium0 = BlankMedium /\ slot_len[n] >= 0) =>
            \A p \in TailPositions(ModelGeometry, n, slot_len[n]) : medium[p] = 0

\* C8 (amended): after any sequence of successful writes, the bytes of each
\* written slot between the end of its latest image and the next block
\* boundary are zero; a write leaves the blocks of its slot beyond the
\* image's blocks as they were, it does not clear them.
C8_ZeroPadToBlockOnly ==
    /\ \A n \in GameNumbers : slot_len[n] < 0
    /\ [][ /\ \A n \in GameNumbers :
                slot_len'[n] >= 0 =>
                    \A p \in PadPositions(ModelGeometry, n, slot_len'[n]) :
                        medium'[p] = 0
           /\ last_call'.ret = "written" =>
                \A p \in TailPositions(ModelGeometry, last_call'.n,
                                       last_call'.size) :
                    medium'[p] = medium[p]
         ]_vars
\* a larger image, then a smaller one in the same slot: the smaller one's
\* last block is padded, the block after it still holds the larger image
C8_Witness ==
    /\ writes = 2 /\ last_call.ret = "written"
    /\ slot_len[last_call.n] = 1
    /\ PadPositions(ModelGeometry, last_call.n, 1) # {}
    /\ \E p \in TailPositions(ModelGeometry, last_call.n, 1) : medium[p] \in {1, 2}
    /\ medium0 = BlankMedium

(***************************************************************************)
(* Loader claims.                                                          *)
(***************************************************************************)
\* The controller presented every byte of every requested sector and the
\* loader took each of them on its rising edge.
EveryByteDelivered ==
    /\ delivered = Len(requests) * SECTOR_BYTES
    /\ consumed = delivered
PayloadLen == Len(requests) * SECTOR_BYTES - HEADER_SKIP_BYTES
\* byte k (from 0) of the stream the medium holds from the start block on
StreamByte(k) == MediumByte(start_block, 0) + k

\* C1 (as claimed): round trip.  After a load that ran to SD_COMPLETE
\* against a controller that delivered every byte of GAME_SIZE_SECTORS
\* blocks, the memory target read from address 0 holds the payload that
\* follows the header on the medium, byte for byte and in order.
C1_RoundTrip ==
    (/\ sd_state = SD_COMPLETE
     /\ EveryByteDelivered
     /\ Len(requests) = GAME_SIZE_SECTORS) =>
        \A a \in 0 .. PayloadLen - 1 :
            psram[a] = StreamByte(HEADER_SKIP_BYTES + a)

\* C2 (as claimed): header skip.  While no more than the header has been
\* taken from the controller nothing is written and the write address
\* stays 0; the byte after the header is the one at address 0; a load whose
\* every sector delivered all its bytes has written the sectors' bytes less
\* the header when it completes.
C2_HeaderSkip ==
    /\ consumed <= HEADER_SKIP_BYTES =>
          /\ psram_load_addr = 0
          /\ \A a \in DOMAIN psram : psram[a] = NoByte
    /\ consumed > HEADER_SKIP_BYTES =>
          psram[0] = StreamByte(HEADER_SKIP_BYTES)
    /\ (sd_state = SD_COMPLETE /\ EveryByteDelivered) =>
          psram_load_addr = PayloadLen

\* C3 (as claimed): fixed sector count.  Whatever the start block, a load
\* that reached SD_COMPLETE requested exactly GAME_SIZE_SECTORS blocks,
\* start_block, start_block+1, ... in increasing order, and completed at
\* the block start_block + GAME_SIZE_SECTORS - 1.
C3_FixedSectorCount ==
    sd_state = SD_COMPLETE =>
        /\ Len(requests) = GAME_SIZE_SECTORS
        /\ \A i \in 1 .. Len(requests) : requests[i] = start_block + i - 1
        /\ current_sector = start_block + GAME_SIZE_SECTORS - 1

\* C4: device stall.  As long as no clock has sampled the idle status 6,
\* a loader in a recognized state is in SD_IDLE, has not asserted the read
\* request, has written nothing and has not set load_complete.
C4_DeviceStall ==
    (~seen_idle_status /\ sd_state \in RecognizedStates) =>
        /\ sd_state = SD_IDLE
        /\ sd_rd = 0 /\ requests = <<>>
        /\ psram_wr_req = 0 /\ psram_load_addr = 0
        /\ \A a \in DOMAIN psram : psram[a] = NoByte
        /\ load_complete = 0
\* the loader sat in SD_IDLE through a clock on which the controller was
\* ready with a status other than 6, and is still there
C4_Witness ==
    /\ ~seen_idle_status /\ sd_state = SD_IDLE
    /\ sd_ready = 1 /\ sd_status # SD_STATUS_IDLE
    /\ sd_byte_available_d = 1

\* C5: completion flags.  Both flags are clear at session creation; a set
\* flag implies SD_COMPLETE; a set flag is never cleared; from SD_COMPLETE
\* the state, the read request, the write request, the memory, the write
\* address and the block index no longer change.
C5_CompletionFlags ==
    /\ load_complete = 0 /\ game_loaded = 0
    /\ [][ /\ (load_complete' = 1 \/ game_loaded' = 1) => sd_state' = SD_COMPLETE
           /\ load_complete = 1 => load_complete' = 1
           /\ game_loaded = 1 => game_loaded' = 1
           /\ sd_state = SD_COMPLETE =>
                 /\ sd_state' = SD_COMPLETE
                 /\ UNCHANGED <<sd_rd, sd_address, psram_wr_req, psram,
                                psram_load_addr, current_sector,
                                byte_in_sector, requests>>
         ]_vars
\* both flags set, in SD_COMPLETE, after a full load
C5_Witness ==
    /\ load_complete = 1 /\ game_loaded = 1 /\ sd_state = SD_COMPLETE
    /\ psram_load_addr = TotalBytes

\* C13: per-block byte count.  SD_LOAD_START sets the intra-block counter
\* to 0; every other clock raises it by the number of bytes it commits; it
\* never exceeds the sector length.  A clock of SD_LOAD_DATA on which the
\* controller is not ready goes to SD_LOAD_NEXT exactly when it commits the
\* byte that brings the counter from the sector length less one to the
\* sector length: not a byte earlier, and no byte is committed after it.
C13_PerBlockByteCount ==
    [][ /\ sd_state = SD_LOAD_START => byte_in_sector' = 0
        /\ sd_state # SD_LOAD_START =>
              byte_in_sector' = byte_in_sector + (consumed' - consumed)
        /\ byte_in_sector <= SECTOR_BYTES /\ byte_in_sector' <= SECTOR_BYTES
        /\ (sd_state = SD_LOAD_DATA /\ sd_ready = 0 /\ sd_state' = SD_LOAD_NEXT) =>
              /\ consumed' = consumed + 1
              /\ byte_in_sector = SECTOR_BYTES - 1
              /\ byte_in_sector' = SECTOR_BYTES
        /\ (sd_state = SD_LOAD_DATA /\ consumed' = consumed + 1) =>
              sd_state' = IF byte_in_sector' = SECTOR_BYTES
                          THEN SD_LOAD_NEXT ELSE SD_LOAD_DATA
      ]_vars
\* the second block of a load has just committed its last byte: the loader
\* is in SD_LOAD_NEXT with the counter at the sector length
C13_Witness ==
    /\ sd_state = SD_LOAD_NEXT /\ psram_wr_req = 1
    /\ byte_in_sector = SECTOR_BYTES
    /\ Len(requests) = 2 /\ consumed = 2 * SECTOR_BYTES

\* C14: edge-triggered intake.  A byte is committed only by a clock of
\* SD_LOAD_DATA that sees sd_byte_available high and its shadow of the
\* clock before low, and one byte at a time; a flag held high commits no
\* second byte, so no more bytes are committed than the controller
\* presented rising edges.  A commit raises the write address and the
\* intra-block counter by exactly 1, every other clock leaves the write
\* address alone, and the write address is the number of bytes committed.
C14_EdgeTriggeredIntake ==
    [][ /\ consumed' # consumed =>
              /\ sd_state = SD_LOAD_DATA
              /\ sd_byte_available = 1 /\ sd_byte_available_d = 0
              /\ consumed' = consumed + 1
              /\ byte_in_sector' = byte_in_sector + 1
              /\ psram_load_addr' = psram_load_addr + 1
        /\ consumed' = consumed => psram_load_addr' = psram_load_addr
        /\ sd_byte_available_d = 1 => consumed' = consumed
        /\ psram_load_addr = consumed /\ psram_load_addr' = consumed'
        /\ consumed <= delivered /\ consumed' <= delivered'
      ]_vars
\* the flag rose once and has stayed high since: one byte is committed
C14_Witness ==
    /\ sd_state = SD_LOAD_DATA
    /\ sd_byte_available = 1 /\ sd_byte_available_d = 1
    /\ delivered = 1 /\ consumed = 1 /\ psram_load_addr = 1

\* the requests issued whose block has not yet passed through SD_LOAD_NEXT
\* on to the next block
Outstanding == Len(requests) - (current_sector - start_block)

\* C15: read-request handshake.  sd_rd is raised only by SD_LOAD_START,
\* which latches the current block index as the request address; it is
\* lowered by the clock of SD_LOAD_WAIT that sees the controller not ready,
\* and by no other; it is low in SD_LOAD_DATA, SD_LOAD_NEXT and
\* SD_COMPLETE.  A request is issued only when every earlier one has passed
\* through SD_LOAD_NEXT, so at most one is outstanding.
C15_ReadRequestHandshake ==
    [][ /\ sd_state = SD_LOAD_START =>
              sd_rd' = 1 /\ sd_address' = current_sector
        /\ (sd_rd' # sd_rd /\ sd_rd' = 1) => sd_state = SD_LOAD_START
        /\ sd_address' # sd_address => sd_state = SD_LOAD_START
        /\ (sd_state = SD_LOAD_WAIT /\ sd_ready = 0) => sd_rd' = 0
        /\ (sd_rd' # sd_rd /\ sd_rd' = 0) =>
              sd_state = SD_LOAD_WAIT /\ sd_ready = 0
        /\ sd_state' \in {SD_LOAD_DATA, SD_LOAD_NEXT, SD_COMPLETE} => sd_rd' = 0
        /\ requests' # requests =>
              /\ sd_state = SD_LOAD_START /\ Outstanding = 0
              /\ requests' = Append(requests, sd_address')
        /\ Outstanding' \in {0, 1}
      ]_vars
\* the second request of a load is waiting for the controller's answer
C15_Witness ==
    /\ sd_state = SD_LOAD_WAIT /\ sd_rd = 1
    /\ Len(requests) = 2 /\ sd_address = current_sector
    /\ Outstanding = 1

\* the state changes the case items make among the recognized states
StateChanges ==
    {<<SD_IDLE, SD_LOAD_START>>, <<SD_LOAD_START, SD_LOAD_WAIT>>,
     <<SD_LOAD_WAIT, SD_LOAD_DATA>>, <<SD_LOAD_DATA, SD_LOAD_NEXT>>,
     <<SD_LOAD_NEXT, SD_LOAD_START>>, <<SD_LOAD_NEXT, SD_COMPLETE>>}

\* C16: transition order.  From a recognized state a clock either keeps the
\* state or makes one of the six changes of StateChanges; SD_LOAD_START
\* always goes on to SD_LOAD_WAIT; no recognized state other than SD_IDLE
\* is followed by SD_IDLE; the block index is raised, by exactly 1, on
\* SD_LOAD_NEXT -> SD_LOAD_START and changes on no other clock.
C16_TransitionOrder ==
    [][ /\ sd_state \in RecognizedStates =>
              sd_state' = sd_state \/ <<sd_state, sd_state'>> \in StateChanges
        /\ sd_state = SD_LOAD_START => sd_state' = SD_LOAD_WAIT
        /\ (sd_state \in RecognizedStates /\ sd_state # SD_IDLE) =>
              sd_state' # SD_IDLE
        /\ (sd_state = SD_LOAD_NEXT /\ sd_state' = SD_LOAD_START) =>
              current_sector' = current_sector + 1
        /\ (sd_state = SD_LOAD_NEXT /\ sd_state' = SD_COMPLETE) =>
              current_sector' = current_sector
        /\ current_sector' # current_sector =>
              sd_state = SD_LOAD_NEXT /\ sd_state' = SD_LOAD_START
      ]_vars
\* a load that made every one of the six changes: two blocks requested,
\* the block index raised once, the loader in SD_COMPLETE
C16_Witness ==
    /\ sd_state = SD_COMPLETE
    /\ Len(requests) = 2 /\ current_sector = start_block + 1
    /\ load_complete = 0

\* C17: unrecognized-state recovery.  A clock that finds the state register
\* outside the six recognized states leaves it in SD_IDLE, whatever the
\* controller's signals, and changes no other register: the read request,
\* the request address, the write request, the write address, the memory,
\* the block index, the intra-block counter and the completion flags keep
\* their values.
C17_UnrecognizedStateRecovery ==
    [][ sd_state \notin RecognizedStates =>
           /\ sd_state' = SD_IDLE
           /\ UNCHANGED <<sd_rd, sd_address, psram_wr_req, psram_load_addr,
                          psram, current_sector, byte_in_sector,
                          load_complete, game_loaded>>
      ]_vars
\* SD_IDLE with the read request still asserted and a block already in
\* memory: the registers of the load the upset interrupted, kept by the
\* default item
C17_Witness ==
    /\ sd_state = SD_IDLE /\ sd_rd = 1
    /\ psram_load_addr = SECTOR_BYTES /\ current_sector = LastBlock

\* A cooperating controller: time and again, a loader in SD_IDLE sees it
\* ready with status 6, a loader in SD_LOAD_WAIT sees it not ready, and a
\* loader in SD_LOAD_DATA sees it ready again or has been presented every
\* byte of the sector it requested.
DeviceCooperates ==
    /\ []<>(sd_state # SD_IDLE \/ (sd_ready = 1 /\ sd_status = SD_STATUS_IDLE))
    /\ []<>(sd_state # SD_LOAD_WAIT \/ sd_ready = 0)
    /\ []<>(sd_state # SD_LOAD_DATA \/ sd_ready = 1 \/ dev_pos = SECTOR_BYTES)
LoadDone == sd_state = SD_COMPLETE /\ load_complete = 1

WrittenUpTo(mem, a) ==
    \A b \in DOMAIN mem : (mem[b] # NoByte) <=> (b < a)

\* C19: early-ready priority.  A clock of SD_LOAD_DATA that sees the
\* controller ready with the intra-block counter below the sector length
\* goes to SD_LOAD_NEXT and commits nothing, a rising edge of
\* sd_byte_available on the same clock included: the memory, the write
\* address and the counter keep their values, so the block has contributed
\* fewer bytes than the sector length.  The bytes committed, of whatever
\* block, lie at consecutive addresses from 0: the first byte of the next
\* block goes to the address after the last committed byte.
C19_EarlyReadyPriority ==
    [][ /\ (/\ sd_state = SD_LOAD_DATA
            /\ sd_ready = 1 /\ byte_in_sector < SECTOR_BYTES) =>
               /\ sd_state' = SD_LOAD_NEXT
               /\ UNCHANGED <<psram, psram_load_addr, byte_in_sector,
                              psram_wr_req, consumed>>
        /\ WrittenUpTo(psram, psram_load_addr)
        /\ WrittenUpTo(psram', psram_load_addr')
        /\ psram_load_addr' # psram_load_addr =>
              psram'[psram_load_addr] = MediumByte(current_sector, byte_in_sector)
      ]_vars
\* the second block was ended by the ready signal on a clock that also
\* showed a rising edge: the byte presented is not in memory, the block's
\* bytes before it follow the (short) first block's without a gap
C19_Witness ==
    /\ sd_state = SD_LOAD_NEXT /\ sd_byte_available_d = 1
    /\ Len(requests) = 2 /\ dev_sector = current_sector
    /\ byte_in_sector >= 1 /\ dev_pos = byte_in_sector + 1
    /\ psram_load_addr > byte_in_sector
    /\ psram_load_addr - byte_in_sector < SECTOR_BYTES
    /\ psram[psram_load_addr - byte_in_sector] = MediumByte(current_sector, 0)
    /\ sd_data = MediumByte(current_sector, byte_in_sector)

=============================================================================
